---- MODULE Spec2Model ----
(***************************************************************************)
(* Transaction normalization and categorization pipeline of BankToCFO:    *)
(* description cleaning, the keyword rule engine, the summaries, the CSV  *)
(* format detector and schema parsers, the PDF page merge, the router     *)
(* parse_bank_statement and the POST /upload handler.                      *)
(*                                                                         *)
(* Text is modelled by TLA+ strings; money is modelled in integer cents.   *)
(***************************************************************************)
EXTENDS Integers, Sequences, FiniteSets, TLC

VARIABLES
    pc,                  \* position of the flow being run
    description,         \* argument of clean_description / categorize_transaction
    amount,              \* argument of categorize_transaction, in cents
    cleaned_desc,        \* clean_description(description)
    recleaned,           \* clean_description(cleaned_desc)
    category,            \* value returned by categorize_transaction
    transactions,        \* the list handed to categorize_transactions
    category_summary,    \* value returned by get_category_summary
    monthly,             \* value returned by get_monthly_summary
    columns,             \* df.columns of the loaded CSV
    bank_format,         \* value returned by detect_bank_format
    images,              \* per page: what the vision call yields for the page image
    page_num,            \* parse_pdf_statement: the page being extracted
    all_transactions,    \* parse_pdf_statement: records collected from the pages
    unique_transactions, \* parse_pdf_statement: the returned list
    file_ext,            \* parse_bank_statement: file_path.suffix
    rows,                \* rows of the loaded CSV, each a function of the columns
    result,              \* what the parser called returned, or that it raised
    parser_run,          \* the schema parser that ran
    jobs,                \* per /upload request: its position, file, job id, response
    uploads,             \* the uploads directory: path -> content
    outputs              \* the outputs directory: path -> workbook

cleanVars == <<description, amount, cleaned_desc, recleaned, category>>

listVars == <<transactions, category_summary, monthly>>

detectVars == <<columns, bank_format>>

pdfVars == <<images, page_num, all_transactions, unique_transactions>>

parserVars == <<file_ext, rows, result, parser_run>>

uploadVars == <<jobs, uploads, outputs>>

vars == <<pc, cleanVars, listVars, detectVars, pdfVars, parserVars, uploadVars>>

None == "<none>"

(***************************************************************************)
(* Characters and strings                                                  *)
(***************************************************************************)
Char(s, i) == SubSeq(s, i, i)

Drop(s, n) == SubSeq(s, n + 1, Len(s))

StartsWith(s, p) == Len(p) <= Len(s) /\ SubSeq(s, 1, Len(p)) = p

Contains(s, k) == \E i \in 1..(Len(s) - Len(k) + 1) : SubSeq(s, i, i + Len(k) - 1) = k

SetMin(S) == CHOOSE x \in S : \A y \in S : x <= y

SetMax(S) == CHOOSE x \in S : \A y \in S : x >= y

UpperLetters == "ABCDEFGHIJKLMNOPQRSTUVWXYZ"

LowerLetters == "abcdefghijklmnopqrstuvwxyz"

Digits == "0123456789"

CharsOf(s) == {Char(s, i) : i \in 1..Len(s)}

IndexIn(s, c) == IF c \in CharsOf(s) THEN CHOOSE i \in 1..Len(s) : Char(s, i) = c ELSE 0

\* \s of the regular expressions and of str.strip()
Whitespace == {" ", "\t"}

\* \w of the regular expressions
WordChars == CharsOf(UpperLetters) \cup CharsOf(LowerLetters) \cup CharsOf(Digits) \cup {"_"}

\* str.lower()
RECURSIVE lower(_)
lower(s) ==
    IF s = "" THEN ""
    ELSE LET c == Char(s, 1)
             u == IndexIn(UpperLetters, c)
         IN  (IF u > 0 THEN Char(LowerLetters, u) ELSE c) \o lower(Drop(s, 1))

\* str.strip()
RECURSIVE strip(_)
strip(s) ==
    IF s = "" THEN ""
    ELSE IF Char(s, 1) \in Whitespace THEN strip(Drop(s, 1))
    ELSE IF Char(s, Len(s)) \in Whitespace THEN strip(SubSeq(s, 1, Len(s) - 1))
    ELSE s

(***************************************************************************)
(* clean_description                                                       *)
(***************************************************************************)
\* the alternatives of the first regular expression, in their order
TRANSACTION_PREFIXES ==
    << "debit card purchase", "pos debit", "recurring deb card purch",
       "ach withdrawal", "ach dep", "payment receipt credit", "usaa credit",
       "usaa debit", "wire transfer credit" >>

MinCodeLen == 6

MaxCodeLen == 10

\* re.sub(r"(debit card purchase|pos debit|...)", "", desc): leftmost match,
\* first alternative that matches, then the scan resumes after the match
RECURSIVE sub_prefixes(_)
sub_prefixes(s) ==
    IF s = "" THEN ""
    ELSE LET m == {k \in 1..Len(TRANSACTION_PREFIXES) : StartsWith(s, TRANSACTION_PREFIXES[k])}
         IN  IF m # {}
             THEN sub_prefixes(Drop(s, Len(TRANSACTION_PREFIXES[SetMin(m)])))
             ELSE Char(s, 1) \o sub_prefixes(Drop(s, 1))

IsWordAt(s, p) == p >= 1 /\ p <= Len(s) /\ Char(s, p) \in WordChars

\* \b between positions p-1 and p
WordBoundary(s, p) == IsWordAt(s, p - 1) # IsWordAt(s, p)

AllDigits(s) == \A i \in 1..Len(s) : Char(s, i) \in CharsOf(Digits)

\* length of the match of \b\d{6,10}\b at position i, 0 when there is none
\* (the quantifier is greedy: the longest count that lets the rest match)
code_match(s, i) ==
    LET ns == {n \in MinCodeLen..MaxCodeLen :
                   /\ i + n - 1 <= Len(s)
                   /\ AllDigits(SubSeq(s, i, i + n - 1))
                   /\ WordBoundary(s, i + n)}
    IN  IF WordBoundary(s, i) /\ ns # {} THEN SetMax(ns) ELSE 0

\* re.sub(r"\b\d{6,10}\b", "", desc)
RECURSIVE sub_codes(_, _)
sub_codes(s, i) ==
    IF i > Len(s) THEN ""
    ELSE LET n == code_match(s, i)
         IN  IF n > 0 THEN sub_codes(s, i + n)
             ELSE Char(s, i) \o sub_codes(s, i + 1)

\* re.sub(r"\*+", "", desc)
RECURSIVE sub_asterisks(_)
sub_asterisks(s) ==
    IF s = "" THEN ""
    ELSE IF Char(s, 1) = "*" THEN sub_asterisks(Drop(s, 1))
    ELSE Char(s, 1) \o sub_asterisks(Drop(s, 1))

\* re.sub(r"\s+", " ", desc)
RECURSIVE sub_whitespace(_)
sub_whitespace(s) ==
    IF s = "" THEN ""
    ELSE IF Char(s, 1) \in Whitespace
         THEN IF Len(s) >= 2 /\ Char(s, 2) \in Whitespace
              THEN sub_whitespace(Drop(s, 1))
              ELSE " " \o sub_whitespace(Drop(s, 1))
    ELSE Char(s, 1) \o sub_whitespace(Drop(s, 1))

clean_description(d) ==
    LET desc0 == lower(d)
        desc1 == sub_prefixes(desc0)
        desc2 == sub_codes(desc1, 1)
        desc3 == sub_asterisks(desc2)
    IN  strip(sub_whitespace(desc3))

(***************************************************************************)
(* The rule table, in declaration order                                    *)
(***************************************************************************)
CATEGORY_RULES ==
  <<
    [category |-> "Software", keywords |-> <<
        "aws", "amazon web services", "azure", "google cloud", "google workspace",
        "github", "gitlab", "slack", "zoom", "microsoft 365", "office 365", "adobe",
        "dropbox", "docusign", "quickbooks", "salesforce", "shopify", "squarespace",
        "wix", "godaddy", "namecheap", "heroku", "vercel", "netlify", "digitalocean",
        "linode">>],
    [category |-> "Subscriptions", keywords |-> <<
        "hulu", "netflix", "spotify", "apple.com/bill", "apple music", "apple tv",
        "disney+", "disney plus", "youtube", "youtube premium", "amazon prime",
        "hbo max", "paramount", "peacock", "discovery+", "crunchyroll", "icloud",
        "google one", "audible", "kindle unlimited", "scribd", "pixieset", "patreon",
        "onlyfans", "twitch">>],
    [category |-> "Revenue", keywords |-> <<
        "payroll", "salary", "deposit", "payment received", "payment receipt credit",
        "venmo", "zelle", "paypal", "stripe", "square", "invoice", "check deposit",
        "direct deposit", "ach credit", "wire transfer credit", "robinhood securities",
        "promotional credit", "canno payroll">>],
    [category |-> "Debt Payments", keywords |-> <<
        "loan payment", "mortgage", "student loan", "car payment", "auto loan",
        "credit card payment", "applecard", "discover e-payment", "chase credit",
        "citi card", "capital one", "amex", "synchrony", "barclays", "bk of amer visa",
        "wells fargo payment", "usaa loan payment">>],
    [category |-> "Fitness", keywords |-> <<
        "gym", "fitness", "yoga", "pilates", "crossfit", "equinox", "f45",
        "orangetheory", "peloton", "crunch", "planet fitness", "la fitness",
        "24 hour fitness", "anytime fitness", "eos fitness", "gold's gym",
        "lifetime fitness", "climbing", "boxing", "martial arts", "tennis">>],
    [category |-> "Gas & Fuel", keywords |-> <<
        "gas", "fuel", "shell", "chevron", "exxon", "mobil", "bp", "texaco",
        "circle k", "7-eleven", "speedway", "wawa", "qt ", "quiktrip", "costco gas",
        "sam's club gas", "arco", "valero", "sunoco", "marathon", "phillips 66",
        "conoco", "pilot", "flying j", "outside", "pump">>],
    [category |-> "Fast Food", keywords |-> <<
        "mcdonalds", "mcdonald's", "burger king", "wendy's", "taco bell",
        "chick-fil-a", "chick fil a", "popeyes", "kfc", "chipotle", "panda express",
        "subway", "arby's", "sonic", "jack in the box", "in-n-out", "five guys",
        "shake shack", "raising cane", "canes", "del taco", "qdoba", "moe's",
        "jersey mike", "jimmy john", "panera", "panera bread", "dunkin",
        "dunkin donuts", "starbucks", "dutch bros", "caribou coffee">>],
    [category |-> "Restaurants", keywords |-> <<
        "restaurant", "cafe", "bistro", "grill", "tavern", "bar", "pub", "steakhouse",
        "sushi", "pizza", "mexican", "italian", "chinese", "thai", "indian",
        "japanese", "uchi", "taco boys", "bahama bucks", "sotol", "applebee",
        "chili's", "olive garden", "red lobster", "outback", "texas roadhouse",
        "longhorn", "cheesecake factory", "bj's restaurant", "buffalo wild wings",
        "hooters", "twin peaks", "yard house", "365 market">>],
    [category |-> "Food Delivery", keywords |-> <<
        "doordash", "uber eats", "grubhub", "postmates", "seamless", "instacart",
        "gopuff", "favor", "waitr", "bite squad">>],
    [category |-> "Groceries", keywords |-> <<
        "grocery", "supermarket", "whole foods", "trader joe", "safeway", "kroger",
        "publix", "albertsons", "food lion", "wegmans", "aldi", "lidl", "fresh market",
        "sprouts", "natural grocers", "harris teeter">>],
    [category |-> "Shopping", keywords |-> <<
        "walmart", "target", "costco", "sam's club", "bj's wholesale", "amazon",
        "amzn mktp", "ebay", "etsy", "macy's", "nordstrom", "kohl's", "jcpenney",
        "dillard's", "tj maxx", "ross", "marshalls", "burlington", "old navy", "gap",
        "banana republic", "h&m", "zara", "forever 21", "urban outfitters",
        "anthropologie", "free people", "klarna", "afterpay", "affirm", "gymshark",
        "pandora">>],
    [category |-> "Healthcare", keywords |-> <<
        "pharmacy", "cvs", "walgreens", "rite aid", "duane reade", "doctor",
        "hospital", "medical", "dental", "dentist", "vision", "optometry",
        "urgent care", "clinic", "lab", "laboratory", "physical therapy",
        "chiropractor", "therapist", "counseling", "health", "ro health", "hims",
        "hers", "nurx", "lemonaid">>],
    [category |-> "Entertainment", keywords |-> <<
        "movie", "cinema", "theater", "theatre", "concert", "show", "live nation",
        "ticketmaster", "stubhub", "amc", "regal", "cinemark", "imax", "bowling",
        "arcade", "dave & buster", "main event", "topgolf", "golf", "mini golf",
        "escape room", "trampoline park", "theme park", "amusement", "zoo", "aquarium",
        "museum">>],
    [category |-> "Personal Care", keywords |-> <<
        "salon", "haircut", "barber", "spa", "massage", "nail", "manicure", "pedicure",
        "waxing", "facial", "beauty", "cosmetics", "sephora", "ulta", "bath & body",
        "lush", "maestros barber">>],
    [category |-> "Pet Care", keywords |-> <<
        "pet", "veterinary", "vet", "petsmart", "petco", "chewy", "dog", "cat",
        "animal hospital", "grooming">>],
    [category |-> "Education", keywords |-> <<
        "tuition", "school", "university", "college", "academy", "course", "udemy",
        "coursera", "skillshare", "masterclass", "linkedin learning", "pluralsight",
        "datacamp", "bootcamp">>],
    [category |-> "Childcare", keywords |-> <<
        "daycare", "childcare", "babysitter", "nanny", "tutor", "tutoring">>],
    [category |-> "Home & Garden", keywords |-> <<
        "home depot", "lowes", "lowe's", "ace hardware", "menards", "home improvement",
        "garden", "landscaping", "lawn", "nursery", "ikea", "bed bath",
        "crate and barrel", "williams sonoma", "pottery barn", "west elm", "wayfair",
        "overstock">>],
    [category |-> "Transportation", keywords |-> <<
        "uber", "lyft", "taxi", "cab", "bus", "train", "metro", "subway", "transit",
        "parking", "park", "toll", "ez pass", "fastrak", "parking.com", "parkwhiz",
        "spothero">>],
    [category |-> "Travel", keywords |-> <<
        "airline", "flight", "airport", "hotel", "motel", "resort", "airbnb", "vrbo",
        "booking.com", "expedia", "hotels.com", "marriott", "hilton", "hyatt", "ihg",
        "best western", "southwest", "delta", "united", "american airlines", "jetblue",
        "spirit", "frontier", "alaska airlines", "rental car", "hertz", "enterprise",
        "budget", "avis", "national", "alamo", "dollar", "thrifty", "turo", "zipcar">>],
    [category |-> "Investments", keywords |-> <<
        "robinhood", "coinbase", "crypto", "bitcoin", "ethereum", "etrade", "schwab",
        "fidelity", "vanguard", "ameritrade", "webull", "acorns", "stash",
        "betterment", "wealthfront", "jpms llc", "jpmorgan", "mspbna">>],
    [category |-> "COGS", keywords |-> <<
        "inventory", "supplies", "wholesale", "materials", "merchandise", "stock",
        "vendor">>],
    [category |-> "Marketing", keywords |-> <<
        "google ads", "facebook ads", "meta ads", "instagram ads", "linkedin ads",
        "twitter ads", "tiktok ads", "pinterest ads", "reddit ads", "marketing",
        "advertising", "promotion", "campaign", "mailchimp", "constant contact",
        "sendinblue", "convertkit", "hubspot", "semrush", "ahrefs", "moz">>],
    [category |-> "Office", keywords |-> <<
        "staples", "office depot", "office max", "best buy", "apple store", "dell",
        "hp", "lenovo", "microsoft store", "furniture", "desk", "chair", "monitor",
        "laptop", "printer", "computer">>],
    [category |-> "Rent", keywords |-> <<
        "rent", "lease", "property", "landlord", "real estate", "apartment">>],
    [category |-> "Utilities", keywords |-> <<
        "electric", "electricity", "gas company", "water", "sewer", "trash",
        "internet", "broadband", "wifi", "phone", "mobile", "cellular", "at&t",
        "verizon", "t-mobile", "sprint", "cricket", "boost mobile", "metro pcs",
        "comcast", "xfinity", "spectrum", "cox", "optimum", "centurylink", "frontier",
        "dish", "directv">>],
    [category |-> "Insurance", keywords |-> <<
        "insurance", "policy", "premium", "usaa insurance", "state farm", "geico",
        "progressive", "allstate", "farmers", "liberty mutual", "nationwide",
        "travelers", "american family", "health insurance", "auto insurance",
        "car insurance", "life insurance", "dental insurance", "vision insurance">>],
    [category |-> "Professional Services", keywords |-> <<
        "attorney", "lawyer", "legal", "accountant", "cpa", "tax prep", "consultant",
        "consulting", "freelancer", "contractor", "agency", "upwork", "fiverr",
        "thumbtack", "taskrabbit">>],
    [category |-> "Bank Fees", keywords |-> <<
        "fee", "service charge", "atm fee", "overdraft", "wire fee", "interest charge",
        "monthly fee", "maintenance fee", "transfer fee", "acctverify">>],
    [category |-> "Payroll", keywords |-> <<
        "gusto", "adp", "paychex", "payroll", "employee", "wages", "salary payment",
        "paycom", "rippling", "bamboohr", "zenefits">>],
    [category |-> "Taxes", keywords |-> <<
        "irs", "tax", "federal tax", "state tax", "sales tax", "payroll tax",
        "estimated tax", "quarterly tax", "franchise tax", "property tax">>]
  >>

(***************************************************************************)
(* categorize_transaction                                                  *)
(***************************************************************************)
\* "abs(amount) < 5", in cents
SmallExpenseLimit == 500

Abs(n) == IF n < 0 THEN -n ELSE n

KeywordHit(keywords, cleaned, description_lower) ==
    \E j \in 1..Len(keywords) :
        Contains(cleaned, keywords[j]) \/ Contains(description_lower, keywords[j])

\* a rule engine that lets the last declared matching category win
RECURSIVE first_match_last_wins(_, _, _)
first_match_last_wins(cleaned, description_lower, ci) ==
    IF ci > Len(CATEGORY_RULES) THEN 0
    ELSE LET later == first_match_last_wins(cleaned, description_lower, ci + 1)
         IN  IF later > 0 THEN later
             ELSE IF KeywordHit(CATEGORY_RULES[ci].keywords, cleaned, description_lower)
                  THEN ci ELSE 0

\* the two nested loops: index of the category of the first hit, 0 for none
RECURSIVE first_match(_, _, _)
first_match(cleaned, description_lower, ci) ==
    IF ci > Len(CATEGORY_RULES) THEN 0
    ELSE IF KeywordHit(CATEGORY_RULES[ci].keywords, cleaned, description_lower) THEN ci
    ELSE first_match(cleaned, description_lower, ci + 1)

\* a fallback whose small-expense test includes the limit itself
default_category_inclusive(amt) ==
    IF amt > 0 THEN "Income"
    ELSE IF Abs(amt) <= SmallExpenseLimit THEN "Small Expense"
    ELSE "Other Expense"

\* a fallback that tests the magnitude before the sign
default_category_magnitude_first(amt) ==
    IF Abs(amt) < SmallExpenseLimit THEN "Small Expense"
    ELSE IF amt > 0 THEN "Income"
    ELSE "Other Expense"

default_category(amt) ==
    IF amt > 0 THEN "Income"
    ELSE IF Abs(amt) < SmallExpenseLimit THEN "Small Expense"
    ELSE "Other Expense"

categorize_transaction(d, amt) ==
    LET ci == first_match(clean_description(d), lower(d), 1)
    IN  IF ci > 0 THEN CATEGORY_RULES[ci].category ELSE default_category(amt)

\* dict[key] = value
SetItem(dict, key, value) ==
    [k \in DOMAIN dict \cup {key} |-> IF k = key THEN value ELSE dict[k]]

EmptyDict == [k \in {} |-> 0]

\* a loop that leaves the last record without a category
categorize_transactions_but_last(txs) ==
    [i \in 1..Len(txs) |->
        IF i = Len(txs) THEN txs[i]
        ELSE SetItem(txs[i], "category",
                     categorize_transaction(txs[i].description, txs[i].amount))]

categorize_transactions(txs) ==
    [i \in 1..Len(txs) |->
        SetItem(txs[i], "category",
                categorize_transaction(txs[i].description, txs[i].amount))]

(***************************************************************************)
(* get_category_summary, get_monthly_summary                               *)
(***************************************************************************)
\* transaction.get("category", "Other")
GetCategory(t) == IF "category" \in DOMAIN t THEN t.category ELSE "Other"

\* an accumulation that overwrites instead of adding
RECURSIVE category_loop_overwrite(_, _, _)
category_loop_overwrite(txs, i, summary) ==
    IF i > Len(txs) THEN summary
    ELSE category_loop_overwrite(txs, i + 1,
                                 SetItem(summary, GetCategory(txs[i]), txs[i].amount))

RECURSIVE category_loop(_, _, _)
category_loop(txs, i, summary) ==
    IF i > Len(txs) THEN summary
    ELSE LET cat == GetCategory(txs[i])
             amt == txs[i].amount
         IN  category_loop(txs, i + 1,
                 IF cat \in DOMAIN summary
                 THEN [summary EXCEPT ![cat] = @ + amt]
                 ELSE SetItem(summary, cat, amt))

get_category_summary(txs) == category_loop(txs, 1, EmptyDict)

MonthLen == 7

\* transaction["date"][:7]
MonthOf(date) == SubSeq(date, 1, IF Len(date) < MonthLen THEN Len(date) ELSE MonthLen)

\* an accumulation that adds negative amounts to the expenses with their sign
RECURSIVE monthly_loop_signed(_, _, _)
monthly_loop_signed(txs, i, m) ==
    IF i > Len(txs) THEN m
    ELSE LET month == MonthOf(txs[i].date)
             m1 == IF month \in DOMAIN m THEN m
                   ELSE SetItem(m, month, [revenue |-> 0, expenses |-> 0, net_income |-> 0])
             amt == txs[i].amount
         IN  monthly_loop_signed(txs, i + 1,
                 IF amt > 0
                 THEN [m1 EXCEPT ![month].revenue = @ + amt]
                 ELSE [m1 EXCEPT ![month].expenses = @ + amt])

\* the first loop: revenue and expenses per month
RECURSIVE monthly_loop(_, _, _)
monthly_loop(txs, i, m) ==
    IF i > Len(txs) THEN m
    ELSE LET month == MonthOf(txs[i].date)
             m1 == IF month \in DOMAIN m THEN m
                   ELSE SetItem(m, month, [revenue |-> 0, expenses |-> 0, net_income |-> 0])
             amt == txs[i].amount
         IN  monthly_loop(txs, i + 1,
                 IF amt > 0
                 THEN [m1 EXCEPT ![month].revenue = @ + amt]
                 ELSE [m1 EXCEPT ![month].expenses = @ + Abs(amt)])

get_monthly_summary(txs) ==
    LET m == monthly_loop(txs, 1, EmptyDict)
    IN  [month \in DOMAIN m |->
            [m[month] EXCEPT !.net_income = m[month].revenue - m[month].expenses]]

(***************************************************************************)
(* Inputs of the categorizer                                               *)
(***************************************************************************)
RECURSIVE Concat(_)
Concat(ws) == IF ws = <<>> THEN "" ELSE Head(ws) \o Concat(Tail(ws))

SeqsUpTo(S, n) == UNION {[1..k -> S] : k \in 0..n}

\* pieces of raw statement text for clean_description
MaxTokens == 3

Tokens == {"DEBIT CARD", "PURCHASE", " ", "*", "123", "456", "7890", "1234567", "x", "\t"}

RawTexts == {Concat(ws) : ws \in SeqsUpTo(Tokens, MaxTokens)}

\* words of descriptions for categorize_transaction
MaxWords == 2

Words == {"Amazon Web Services", " invoice", "Starbucks", "xyz",
          "POS DEBIT 5811121424 ", "A*W*S", "ACH DEPOSIT"}

Descriptions == {Concat(ws) : ws \in SeqsUpTo(Words, MaxWords)}

Amounts == {-10000, -500, -499, 0, 499, 500, 10000}

Txn(d, desc, amt, ty) == [date |-> d, description |-> desc, amount |-> amt, type |-> ty]

\* the three records of test_backend.py and a few more
TestTransactions ==
    << Txn("2024-01-15", "Amazon Web Services", -5000, "Debit"),
       Txn("2024-01-16", "Customer Payment via Stripe", 150000, "Credit"),
       Txn("2024-01-17", "Starbucks Coffee", -550, "Debit") >>

TxnPool ==
    {TestTransactions[i] : i \in 1..3} \cup
    { Txn("2024-02-01", "GitHub", -1000, "Debit"),
      Txn("2024-02-01", "xyz", 0, "Credit"),
      Txn("2024-02", "xyz refund", 2500, "Credit") }

MaxTxns == 3

TxnLists == SeqsUpTo(TxnPool, MaxTxns)

IdleClean ==
    /\ description = None /\ amount = 0
    /\ cleaned_desc = None /\ recleaned = None /\ category = None

IdleList == transactions = <<>> /\ category_summary = EmptyDict /\ monthly = EmptyDict

IdleDetect == columns = {} /\ bank_format = None

IdlePdf ==
    /\ images = <<>> /\ page_num = 0
    /\ all_transactions = <<>> /\ unique_transactions = <<>>

NoResult == [raised |-> FALSE, transactions |-> <<>>]

IdleParser == file_ext = None /\ rows = <<>> /\ result = NoResult /\ parser_run = None

IdleUpload == jobs = <<>> /\ uploads = <<>> /\ outputs = <<>>

(***************************************************************************)
(* The categorizer: clean_description applied once and twice,              *)
(* categorize_transaction on one description and amount, and               *)
(* categorize_transactions followed by the two summaries on a list         *)
(***************************************************************************)
InitClean ==
    /\ pc = "raw"
    /\ description \in RawTexts
    /\ amount = 0
    /\ cleaned_desc = None /\ recleaned = None /\ category = None
    /\ IdleList

InitCategorize ==
    /\ pc = "uncategorized"
    /\ description \in Descriptions
    /\ amount \in Amounts
    /\ cleaned_desc = None /\ recleaned = None /\ category = None
    /\ IdleList

InitList ==
    /\ pc = "list"
    /\ transactions \in TxnLists
    /\ category_summary = EmptyDict /\ monthly = EmptyDict
    /\ IdleClean

InitCategorizer ==
    /\ InitClean \/ InitCategorize \/ InitList
    /\ IdleDetect /\ IdlePdf /\ IdleParser /\ IdleUpload

CleanDescription ==
    /\ pc = "raw"
    /\ cleaned_desc' = clean_description(description)
    /\ pc' = "cleaned"
    /\ UNCHANGED <<description, amount, recleaned, category, listVars, detectVars, pdfVars, parserVars, uploadVars>>

CleanAgain ==
    /\ pc = "cleaned"
    /\ recleaned' = clean_description(cleaned_desc)
    /\ pc' = "recleaned"
    /\ UNCHANGED <<description, amount, cleaned_desc, category, listVars, detectVars, pdfVars, parserVars, uploadVars>>

CategorizeTransaction ==
    /\ pc = "uncategorized"
    /\ category' = categorize_transaction(description, amount)
    /\ pc' = "categorized"
    /\ UNCHANGED <<description, amount, cleaned_desc, recleaned, listVars, detectVars, pdfVars, parserVars, uploadVars>>

CategorizeTransactions ==
    /\ pc = "list"
    /\ transactions' = categorize_transactions(transactions)
    /\ pc' = "list_categorized"
    /\ UNCHANGED <<category_summary, monthly, cleanVars, detectVars, pdfVars, parserVars, uploadVars>>

GetMonthlySummary ==
    /\ pc = "list_categorized"
    /\ monthly' = get_monthly_summary(transactions)
    /\ pc' = "monthly_done"
    /\ UNCHANGED <<transactions, category_summary, cleanVars, detectVars, pdfVars, parserVars, uploadVars>>

GetCategorySummary ==
    /\ pc = "monthly_done"
    /\ category_summary' = get_category_summary(transactions)
    /\ pc' = "summarized"
    /\ UNCHANGED <<transactions, monthly, cleanVars, detectVars, pdfVars, parserVars, uploadVars>>

NextCategorizer ==
    \/ CleanDescription
    \/ CleanAgain
    \/ CategorizeTransaction
    \/ CategorizeTransactions
    \/ GetMonthlySummary
    \/ GetCategorySummary

SpecCategorizer == InitCategorizer /\ [][NextCategorizer]_vars

(***************************************************************************)
(* detect_bank_format                                                      *)
(***************************************************************************)
\* columns = [col.lower() for col in df.columns]
LowerColumns(cols) == {lower(c) : c \in cols}

\* a detector that tries the date/description/amount rule before the
\* date/amount rule
detect_bank_format_generic_reachable(cols) ==
    LET lowered == LowerColumns(cols)
    IN  IF "posting date" \in lowered /\ "description" \in lowered THEN "chase"
        ELSE IF "posted date" \in lowered /\ "payee" \in lowered THEN "bofa"
        ELSE IF "date" \in lowered /\ "description" \in lowered /\ "amount" \in lowered
        THEN "generic"
        ELSE IF "date" \in lowered /\ "amount" \in lowered THEN "wells_fargo"
        ELSE "unknown"

\* a detector that tries the date/amount rule before the bank-specific ones
detect_bank_format_generic_first(cols) ==
    LET lowered == LowerColumns(cols)
    IN  IF "date" \in lowered /\ "amount" \in lowered THEN "wells_fargo"
        ELSE IF "posting date" \in lowered /\ "description" \in lowered THEN "chase"
        ELSE IF "posted date" \in lowered /\ "payee" \in lowered THEN "bofa"
        ELSE "unknown"

detect_bank_format(cols) ==
    LET lowered == LowerColumns(cols)
    IN  IF "posting date" \in lowered /\ "description" \in lowered THEN "chase"
        ELSE IF "posted date" \in lowered /\ "payee" \in lowered THEN "bofa"
        ELSE IF "date" \in lowered /\ "amount" \in lowered THEN "wells_fargo"
        ELSE IF "date" \in lowered /\ "description" \in lowered /\ "amount" \in lowered
             THEN "generic"
        ELSE "unknown"

Headers == {"Posting Date", "Description", "Amount", "Posted Date", "Payee",
            "Date", "Memo", "Type", "DATE", "amount"}

MaxColumns == 4

HeaderSets == {cols \in SUBSET Headers : Cardinality(cols) <= MaxColumns}

InitDetect ==
    /\ pc = "loaded"
    /\ columns \in HeaderSets
    /\ bank_format = None
    /\ IdleClean /\ IdleList /\ IdlePdf /\ IdleParser /\ IdleUpload

DetectBankFormat ==
    /\ pc = "loaded"
    /\ bank_format' = detect_bank_format(columns)
    /\ pc' = "detected"
    /\ UNCHANGED <<columns, cleanVars, listVars, pdfVars, parserVars, uploadVars>>

NextDetect == DetectBankFormat

SpecDetect == InitDetect /\ [][NextDetect]_vars

(***************************************************************************)
(* parse_pdf_statement                                                     *)
(***************************************************************************)
\* A JSON number of the vision reply: its value in cents, and whether
\* json.loads yields a float (the text has a fraction or an exponent) or an
\* int.  Python compares the two kinds by value: -50 == -50.0.
JsonInt(units) == [cents |-> units * 100, is_float |-> FALSE]

JsonFloat(c) == [cents |-> c, is_float |-> TRUE]

NumberEq(a, b) == a.cents = b.cents

DigitChar(d) == Char(Digits, d + 1)

\* str() of a non-negative int
RECURSIVE NatToStr(_)
NatToStr(n) == IF n < 10 THEN DigitChar(n) ELSE NatToStr(n \div 10) \o DigitChar(n % 10)

\* f"{amount}": str() of an int, repr() of a float with two decimals at most
FormatAmount(a) ==
    LET mag   == Abs(a.cents)
        sign  == IF a.cents < 0 THEN "-" ELSE ""
        whole == NatToStr(mag \div 100)
        frac  == mag % 100
    IN  IF ~a.is_float THEN sign \o whole
        ELSE IF frac % 10 = 0 THEN sign \o whole \o "." \o DigitChar(frac \div 10)
        ELSE sign \o whole \o "." \o DigitChar(frac \div 10) \o DigitChar(frac % 10)

\* the characters of the dates, in code point order
CodePoints == " -/0123456789_"

\* a < b on str
RECURSIVE StrLess(_, _)
StrLess(a, b) ==
    IF b = "" THEN FALSE
    ELSE IF a = "" THEN TRUE
    ELSE IF Char(a, 1) = Char(b, 1) THEN StrLess(Drop(a, 1), Drop(b, 1))
    ELSE IndexIn(CodePoints, Char(a, 1)) < IndexIn(CodePoints, Char(b, 1))

\* an extraction that hands on whatever the reply holds
extract_transactions_from_image_any_reply(image) == image.records

\* extract_transactions_from_image: the parsed reply when it is a list, an
\* empty list when the call or the parsing fails or the reply is no list
extract_transactions_from_image(image) ==
    IF image.reply = "list" THEN image.records ELSE <<>>

\* list.sort(key=lambda x: x["date"]) is stable: x goes behind the records
\* whose date is not greater
RECURSIVE InsertByDate(_, _)
InsertByDate(sorted, x) ==
    IF sorted = <<>> THEN <<x>>
    ELSE IF StrLess(x.date, Head(sorted).date) THEN <<x>> \o sorted
    ELSE <<Head(sorted)>> \o InsertByDate(Tail(sorted), x)

\* no sort: the records in the order of the pages
sort_by_date_page_order(txs) == txs

RECURSIVE sort_by_date(_)
sort_by_date(txs) ==
    IF txs = <<>> THEN <<>>
    ELSE InsertByDate(sort_by_date(SubSeq(txs, 1, Len(txs) - 1)), txs[Len(txs)])

\* f"{trans['date']}_{trans['description']}_{trans['amount']}"
DedupKey(trans) ==
    trans.date \o "_" \o trans.description \o "_" \o FormatAmount(trans.amount)

\* the loop over the sorted records with the set of keys seen
RECURSIVE dedup_loop(_, _, _, _)
dedup_loop(txs, i, seen, unique) ==
    IF i > Len(txs) THEN unique
    ELSE LET key == DedupKey(txs[i])
         IN  IF key \notin seen
             THEN dedup_loop(txs, i + 1, seen \cup {key}, Append(unique, txs[i]))
             ELSE dedup_loop(txs, i + 1, seen, unique)

\* x["date"] raises KeyError for a record without a date
HasDates(txs) == \A i \in 1..Len(txs) : "date" \in DOMAIN txs[i]

PdfRecord(d, desc, amt, ty) == [date |-> d, description |-> desc, amount |-> amt, type |-> ty]

PdfRecords ==
    { PdfRecord("2024-01-15", "AWS", JsonInt(-50), "Debit"),
      PdfRecord("2024-01-15", "AWS", JsonFloat(-5000), "Debit"),
      PdfRecord("2024-01-02", "Rent", JsonFloat(-120050), "Debit"),
      PdfRecord("2024-01-02", "Rent", JsonFloat(-120050), "Withdrawal"),
      [description |-> "Balance forward", amount |-> JsonFloat(1000), type |-> "Credit"] }

MaxPerPage == 1

MaxPages == 2

\* a reply that is a JSON object around the records, not a list
ObjectReply ==
    [reply |-> "object",
     records |-> <<PdfRecord("2024-01-03", "Wrapped", JsonInt(-700), "Debit")>>]

\* a call or a json.loads that raises
ErrorReply == [reply |-> "error", records |-> <<>>]

PageReplies ==
    {[reply |-> "list", records |-> rs] : rs \in SeqsUpTo(PdfRecords, MaxPerPage)}
    \cup {ErrorReply, ObjectReply}

InitPdf ==
    /\ pc = "extracting"
    /\ images \in SeqsUpTo(PageReplies, MaxPages)
    /\ page_num = 1
    /\ all_transactions = <<>>
    /\ unique_transactions = <<>>
    /\ IdleClean /\ IdleList /\ IdleDetect /\ IdleParser /\ IdleUpload

\* one turn of the loop over the pages
ExtractPage ==
    /\ pc = "extracting"
    /\ page_num <= Len(images)
    /\ all_transactions' = all_transactions \o extract_transactions_from_image(images[page_num])
    /\ page_num' = page_num + 1
    /\ UNCHANGED <<pc, images, unique_transactions, cleanVars, listVars, detectVars, parserVars, uploadVars>>

\* after the loop: sort, then remove the duplicates
SortAndDedup ==
    /\ pc = "extracting"
    /\ page_num > Len(images)
    /\ IF HasDates(all_transactions)
       THEN /\ all_transactions' = sort_by_date(all_transactions)
            /\ unique_transactions' = dedup_loop(all_transactions', 1, {}, <<>>)
            /\ pc' = "returned"
       ELSE /\ pc' = "raised"
            /\ UNCHANGED <<all_transactions, unique_transactions>>
    /\ UNCHANGED <<images, page_num, cleanVars, listVars, detectVars, parserVars, uploadVars>>

NextPdf == ExtractPage \/ SortAndDedup

SpecPdf == InitPdf /\ [][NextPdf]_vars

(***************************************************************************)
(* Cells of a CSV as pandas and float() read them                          *)
(***************************************************************************)
\* the cell texts that pd.read_csv turns into NaN
NaValues ==
    {"", "#N/A", "#N/A N/A", "#NA", "-1.#IND", "-1.#QNAN", "-NaN", "-nan", "1.#IND",
     "1.#QNAN", "<NA>", "N/A", "NA", "NULL", "NaN", "None", "n/a", "nan", "null"}

\* float("nan"): not a number, neither below nor above any number
NaN == [is_nan |-> TRUE]

IsNaN(a) == "is_nan" \in DOMAIN a

\* str() of a cell: the text, "nan" for a NaN cell
CellStr(cell) == IF cell \in NaValues THEN "nan" ELSE cell

RECURSIVE StrToNat(_)
StrToNat(s) ==
    IF s = "" THEN 0
    ELSE StrToNat(SubSeq(s, 1, Len(s) - 1)) * 10 + (IndexIn(Digits, Char(s, Len(s))) - 1)

Unsigned(t) == IF t # "" /\ Char(t, 1) \in {"-", "+"} THEN Drop(t, 1) ELSE t

IntPart(t) == IF IndexIn(t, ".") = 0 THEN t ELSE SubSeq(t, 1, IndexIn(t, ".") - 1)

FracPart(t) == IF IndexIn(t, ".") = 0 THEN "" ELSE Drop(t, IndexIn(t, "."))

\* the decimal literals float() accepts: blanks around, a sign, digits with
\* an optional point (the model has no exponents and no inf)
IsFloatText(cell) ==
    LET t == Unsigned(strip(cell))
    IN  /\ AllDigits(IntPart(t))
        /\ AllDigits(FracPart(t))
        /\ Len(IntPart(t)) + Len(FracPart(t)) > 0

\* the value of such a literal in cents (amounts have two decimals at most)
FloatCents(cell) ==
    LET t   == strip(cell)
        u   == Unsigned(t)
        f   == FracPart(u) \o "00"
        mag == StrToNat(IntPart(u)) * 100 + StrToNat(SubSeq(f, 1, 2))
    IN  IF Char(t, 1) = "-" THEN 0 - mag ELSE mag

\* float(row[...]) raises ValueError; a NaN cell is a float already
FloatRaises(cell) == cell \notin NaValues /\ ~IsFloatText(cell)

\* float(row[...]) when it does not raise
to_float(cell) == IF cell \in NaValues THEN NaN ELSE JsonFloat(FloatCents(cell))

\* amount < 0 on floats: False for NaN
IsNegative(a) == ~IsNaN(a) /\ a.cents < 0

IsIsoDate(t) ==
    /\ Len(t) = 10 /\ Char(t, 5) = "-" /\ Char(t, 8) = "-"
    /\ AllDigits(SubSeq(t, 1, 4)) /\ AllDigits(SubSeq(t, 6, 7)) /\ AllDigits(SubSeq(t, 9, 10))

IsSlashDate(t) ==
    /\ Len(t) = 10 /\ Char(t, 3) = "/" /\ Char(t, 6) = "/"
    /\ AllDigits(SubSeq(t, 1, 2)) /\ AllDigits(SubSeq(t, 4, 5)) /\ AllDigits(SubSeq(t, 7, 10))

IsLeapYear(y) == y % 4 = 0 /\ (y % 100 # 0 \/ y % 400 = 0)

DaysInMonth(y, m) ==
    IF m = 2 THEN (IF IsLeapYear(y) THEN 29 ELSE 28)
    ELSE IF m \in {4, 6, 9, 11} THEN 30 ELSE 31

\* pd.to_datetime on YYYY-MM-DD and on MM/DD/YYYY (month first; day first
\* when the first number cannot be a month)
DateFields(t) ==
    IF IsIsoDate(t)
    THEN [y |-> StrToNat(SubSeq(t, 1, 4)), m |-> StrToNat(SubSeq(t, 6, 7)),
          d |-> StrToNat(SubSeq(t, 9, 10))]
    ELSE IF IsSlashDate(t)
    THEN LET a == StrToNat(SubSeq(t, 1, 2))
             b == StrToNat(SubSeq(t, 4, 5))
             y == StrToNat(SubSeq(t, 7, 10))
         IN  IF a <= 12 THEN [y |-> y, m |-> a, d |-> b] ELSE [y |-> y, m |-> b, d |-> a]
    ELSE [y |-> 0, m |-> 0, d |-> 0]

IsCalendarDate(f) == f.y >= 1 /\ f.m \in 1..12 /\ f.d \in 1..DaysInMonth(f.y, f.m)

\* pd.to_datetime(cell).strftime(...) raises: the text is no date, or the
\* cell is NaN and NaT has no strftime
DateRaises(cell) == cell \in NaValues \/ ~IsCalendarDate(DateFields(cell))

Pad2(n) == IF n < 10 THEN "0" \o NatToStr(n) ELSE NatToStr(n)

Pad4(n) ==
    IF n < 10 THEN "000" \o NatToStr(n)
    ELSE IF n < 100 THEN "00" \o NatToStr(n)
    ELSE IF n < 1000 THEN "0" \o NatToStr(n)
    ELSE NatToStr(n)

\* pd.to_datetime(cell).strftime('%Y-%m-%d')
to_date(cell) ==
    LET f == DateFields(cell) IN Pad4(f.y) \o "-" \o Pad2(f.m) \o "-" \o Pad2(f.d)

(***************************************************************************)
(* parse_chase_format, parse_bofa_format, parse_wells_fargo_format,        *)
(* parse_generic_format: a row whose conversion raises is skipped          *)
(***************************************************************************)
RECURSIVE Flatten(_)
Flatten(ss) == IF ss = <<>> THEN <<>> ELSE Head(ss) \o Flatten(Tail(ss))

\* a type label with the comparison turned around
type_of_inverted(a) == IF IsNegative(a) THEN "Credit" ELSE "Debit"

\* 'Debit' if amount < 0 else 'Credit'
type_of(a) == IF IsNegative(a) THEN "Debit" ELSE "Credit"

chase_row(row) ==
    IF /\ {"Posting Date", "Description", "Amount"} \subseteq DOMAIN row
       /\ ~DateRaises(row["Posting Date"])
       /\ ~FloatRaises(row["Amount"])
    THEN << [date |-> to_date(row["Posting Date"]),
             description |-> strip(CellStr(row["Description"])),
             amount |-> to_float(row["Amount"]),
             type |-> IF "Type" \in DOMAIN row THEN CellStr(row["Type"]) ELSE "Unknown"] >>
    ELSE <<>>

bofa_row(row) ==
    IF /\ {"Amount", "Posted Date", "Payee"} \subseteq DOMAIN row
       /\ ~FloatRaises(row["Amount"])
       /\ ~DateRaises(row["Posted Date"])
    THEN << [date |-> to_date(row["Posted Date"]),
             description |-> strip(CellStr(row["Payee"])),
             amount |-> to_float(row["Amount"]),
             type |-> type_of(to_float(row["Amount"]))] >>
    ELSE <<>>

\* row.get('Description', row.get('Memo', ''))
wells_fargo_description(row) ==
    IF "Description" \in DOMAIN row THEN CellStr(row["Description"])
    ELSE IF "Memo" \in DOMAIN row THEN CellStr(row["Memo"])
    ELSE ""

wells_fargo_row(row) ==
    IF /\ {"Amount", "Date"} \subseteq DOMAIN row
       /\ ~FloatRaises(row["Amount"])
       /\ ~DateRaises(row["Date"])
    THEN << [date |-> to_date(row["Date"]),
             description |-> strip(wells_fargo_description(row)),
             amount |-> to_float(row["Amount"]),
             type |-> type_of(to_float(row["Amount"]))] >>
    ELSE <<>>

generic_row(row) ==
    IF /\ {"Amount", "Date", "Description"} \subseteq DOMAIN row
       /\ ~FloatRaises(row["Amount"])
       /\ ~DateRaises(row["Date"])
    THEN << [date |-> to_date(row["Date"]),
             description |-> strip(CellStr(row["Description"])),
             amount |-> to_float(row["Amount"]),
             type |-> type_of(to_float(row["Amount"]))] >>
    ELSE <<>>

parse_chase_format(rws) == Flatten([i \in 1..Len(rws) |-> chase_row(rws[i])])

parse_bofa_format(rws) == Flatten([i \in 1..Len(rws) |-> bofa_row(rws[i])])

\* a loop that ends at the first row it cannot convert
RECURSIVE parse_wells_fargo_format_until_bad(_)
parse_wells_fargo_format_until_bad(rws) ==
    IF rws = <<>> \/ wells_fargo_row(Head(rws)) = <<>> THEN <<>>
    ELSE wells_fargo_row(Head(rws)) \o parse_wells_fargo_format_until_bad(Tail(rws))

parse_wells_fargo_format(rws) == Flatten([i \in 1..Len(rws) |-> wells_fargo_row(rws[i])])

parse_generic_format(rws) == Flatten([i \in 1..Len(rws) |-> generic_row(rws[i])])

(***************************************************************************)
(* parse_pdf_statement as one call, parse_csv_statement,                   *)
(* parse_bank_statement                                                    *)
(***************************************************************************)
Raised == [raised |-> TRUE, transactions |-> <<>>]

Returned(txs) == [raised |-> FALSE, transactions |-> txs]

parse_pdf_statement(imgs) ==
    LET collected == Flatten([p \in 1..Len(imgs) |-> extract_transactions_from_image(imgs[p])])
    IN  IF HasDates(collected)
        THEN Returned(dedup_loop(sort_by_date(collected), 1, {}, <<>>))
        ELSE Raised

\* what a call leaves behind: its result, the format it detected and the
\* schema parser it ran
Outcome(res, fmt, p) == [result |-> res, bank_format |-> fmt, parser_run |-> p]

\* pd.read_csv raises for a file without columns; an unknown format raises;
\* every exception comes out as ValueError("Failed to parse CSV: ...")
parse_csv_statement(cols, rws) ==
    LET fmt == detect_bank_format(cols)
    IN  IF cols = {} THEN Outcome(Raised, None, None)
        ELSE IF fmt = "chase" THEN Outcome(Returned(parse_chase_format(rws)), fmt, "chase")
        ELSE IF fmt = "bofa" THEN Outcome(Returned(parse_bofa_format(rws)), fmt, "bofa")
        ELSE IF fmt = "wells_fargo"
        THEN Outcome(Returned(parse_wells_fargo_format(rws)), fmt, "wells_fargo")
        ELSE IF fmt = "generic"
        THEN Outcome(Returned(parse_generic_format(rws)), fmt, "generic")
        ELSE Outcome(Raised, fmt, None)

\* a router that compares the suffix as it is written
parse_bank_statement_case_sensitive(ext, cols, rws, imgs) ==
    IF ext = ".pdf" THEN Outcome(parse_pdf_statement(imgs), None, None)
    ELSE IF ext = ".csv" THEN parse_csv_statement(cols, rws)
    ELSE Outcome(Raised, None, None)

parse_bank_statement(ext, cols, rws, imgs) ==
    IF lower(ext) = ".pdf" THEN Outcome(parse_pdf_statement(imgs), None, None)
    ELSE IF lower(ext) = ".csv" THEN parse_csv_statement(cols, rws)
    ELSE Outcome(Raised, None, None)

(***************************************************************************)
(* Files                                                                   *)
(***************************************************************************)
Range(f) == {f[i] : i \in DOMAIN f}

Layouts ==
    { <<"Posting Date", "Description", "Amount", "Type", "Balance">>,
      <<"Posting Date", "Description", "Amount">>,
      <<"Posted Date", "Payee", "Address", "Amount">>,
      <<"Date", "Amount", "Description">>,
      <<"Date", "Amount", "Memo">>,
      <<"Date", "Amount">>,
      <<"date", "description", "amount">>,
      <<"Transaction", "Value">> }

Cells(d, desc, amt, ty) == [date |-> d, desc |-> desc, amount |-> amt, type |-> ty]

RowCells ==
    { Cells("2024-01-15", "AWS", "-50.00", "ACH_DEBIT"),
      Cells("01/02/2024", " Payroll deposit ", "1500", "Debit"),
      Cells("2024-01-20", "Refund", "abc", "MISC_CREDIT"),
      Cells("2024-01-21", "Pending charge", "", ""),
      Cells("not a date", "Coffee", "-5.50", "DEBIT_CARD"),
      Cells("", "Carried over", "12.5", "") }

\* the cell of a row under a header
CellUnder(header, cells) ==
    IF header \in {"Posting Date", "Posted Date", "Date", "date"} THEN cells.date
    ELSE IF header \in {"Description", "Payee", "Memo", "description"} THEN cells.desc
    ELSE IF header \in {"Amount", "amount"} THEN cells.amount
    ELSE IF header = "Type" THEN cells.type
    ELSE ""

MakeRow(layout, cells) == [h \in Range(layout) |-> CellUnder(h, cells)]

MaxRows == 3

CsvFile(ext, layout, cs) ==
    [ext |-> ext, columns |-> Range(layout),
     rows |-> [i \in 1..Len(cs) |-> MakeRow(layout, cs[i])], images |-> <<>>]

SampleLayout == <<"Date", "Amount", "Description">>

SampleCells == <<Cells("2024-01-15", "AWS", "-50.00", "ACH_DEBIT")>>

PdfFile(ext, imgs) == [ext |-> ext, columns |-> {}, rows |-> <<>>, images |-> imgs]

\* pages of one record each, and a page whose extraction fails
SinglePages ==
    {[reply |-> "list", records |-> <<r>>] : r \in PdfRecords} \cup {ErrorReply, ObjectReply}

Files ==
    {CsvFile(".csv", layout, cs) : layout \in Layouts, cs \in SeqsUpTo(RowCells, MaxRows)}
    \cup {CsvFile(ext, SampleLayout, SampleCells) : ext \in {".CSV", ".txt", ".xlsx", ""}}
    \cup {[ext |-> ".csv", columns |-> {}, rows |-> <<>>, images |-> <<>>]}
    \cup {PdfFile(".pdf", imgs) : imgs \in SeqsUpTo(SinglePages, MaxPages)}
    \cup {PdfFile(".PDF", <<p>>) : p \in SinglePages}

(***************************************************************************)
(* parser.py: parse_bank_statement on a file, and each schema parser on   *)
(* the rows of a loaded CSV                                                *)
(***************************************************************************)
InitParser ==
    /\ pc = "file"
    /\ \E f \in Files :
           /\ file_ext = f.ext
           /\ columns = f.columns
           /\ rows = f.rows
           /\ images = f.images
    /\ bank_format = None
    /\ page_num = 0 /\ all_transactions = <<>> /\ unique_transactions = <<>>
    /\ result = NoResult
    /\ parser_run = None
    /\ IdleClean /\ IdleList /\ IdleUpload

IsCsv == lower(file_ext) = ".csv" /\ columns # {}

ParseBankStatement ==
    /\ pc = "file"
    /\ LET o == parse_bank_statement(file_ext, columns, rows, images)
       IN  /\ result' = o.result
           /\ bank_format' = o.bank_format
           /\ parser_run' = o.parser_run
    /\ pc' = "parsed"
    /\ UNCHANGED <<columns, file_ext, rows, cleanVars, listVars, pdfVars, uploadVars>>

ParseChaseFormat ==
    /\ pc = "file" /\ IsCsv
    /\ result' = Returned(parse_chase_format(rows))
    /\ parser_run' = "chase"
    /\ pc' = "rows_parsed"
    /\ UNCHANGED <<detectVars, file_ext, rows, cleanVars, listVars, pdfVars, uploadVars>>

ParseBofaFormat ==
    /\ pc = "file" /\ IsCsv
    /\ result' = Returned(parse_bofa_format(rows))
    /\ parser_run' = "bofa"
    /\ pc' = "rows_parsed"
    /\ UNCHANGED <<detectVars, file_ext, rows, cleanVars, listVars, pdfVars, uploadVars>>

ParseWellsFargoFormat ==
    /\ pc = "file" /\ IsCsv
    /\ result' = Returned(parse_wells_fargo_format(rows))
    /\ parser_run' = "wells_fargo"
    /\ pc' = "rows_parsed"
    /\ UNCHANGED <<detectVars, file_ext, rows, cleanVars, listVars, pdfVars, uploadVars>>

ParseGenericFormat ==
    /\ pc = "file" /\ IsCsv
    /\ result' = Returned(parse_generic_format(rows))
    /\ parser_run' = "generic"
    /\ pc' = "rows_parsed"
    /\ UNCHANGED <<detectVars, file_ext, rows, cleanVars, listVars, pdfVars, uploadVars>>

NextParser ==
    \/ ParseBankStatement
    \/ ParseChaseFormat
    \/ ParseBofaFormat
    \/ ParseWellsFargoFormat
    \/ ParseGenericFormat

SpecParser == InitParser /\ [][NextParser]_vars

(***************************************************************************)
(* main.py: POST /upload                                                   *)
(***************************************************************************)
EndsWith(s, suffix) ==
    Len(suffix) <= Len(s) /\ SubSeq(s, Len(s) - Len(suffix) + 1, Len(s)) = suffix

\* Path.suffix: the name from its last point on, "" without a point
Suffix(path) ==
    LET points == {i \in 1..Len(path) : Char(path, i) = "."}
    IN  IF points = {} THEN "" ELSE Drop(path, SetMax(points) - 1)

\* del dict[key]
DelItem(dict, key) == [k \in DOMAIN dict \ {key} |-> dict[k]]

\* an error handler that leaves the uploaded file where it is
cleanup_on_error_skipped(dir, path) == dir

\* if upload_path.exists(): upload_path.unlink()
cleanup_on_error(dir, path) == IF path \in DOMAIN dir THEN DelItem(dir, path) ELSE dir

\* allowed_extensions and the test on file.filename
allowed_extensions == {".pdf", ".csv"}

IsAllowed(filename) == \E ext \in allowed_extensions : EndsWith(lower(filename), ext)

Response(status, detail, count) == [status |-> status, detail |-> detail, count |-> count]

NoResponse == Response(0, None, 0)

\* datetime.strptime(d, "%Y-%m-%d"): three numbers between two hyphens, a
\* year of four digits, a month and a day of one or two digits
strptime_raises(d) ==
    LET hyphens == {i \in 1..Len(d) : Char(d, i) = "-"}
        h1 == SetMin(hyphens)
        h2 == SetMax(hyphens)
        y  == SubSeq(d, 1, h1 - 1)
        m  == SubSeq(d, h1 + 1, h2 - 1)
        dd == SubSeq(d, h2 + 1, Len(d))
    IN  ~ /\ Cardinality(hyphens) = 2
          /\ Len(y) = 4 /\ Len(m) \in 1..2 /\ Len(dd) \in 1..2
          /\ AllDigits(y) /\ AllDigits(m) /\ AllDigits(dd)
          /\ IsCalendarDate([y |-> StrToNat(y), m |-> StrToNat(m), d |-> StrToNat(dd)])

\* categorize_transactions on parsed transactions (their amounts in cents)
categorize_parsed(txs) ==
    [i \in 1..Len(txs) |->
        SetItem(txs[i], "category",
                categorize_transaction(txs[i].description, txs[i].amount.cents))]

\* generate_cfo_pack raises at the first date strptime rejects, before the
\* workbook is saved
BadDates(txs) == {i \in 1..Len(txs) : strptime_raises(txs[i].date)}

\* str(e) of what parse_bank_statement raised on a file
parse_error_text(file) ==
    IF lower(file.ext) = ".pdf" THEN "'date'"
    ELSE IF lower(file.ext) # ".csv" THEN "Unsupported file type: " \o lower(file.ext)
    ELSE IF file.columns = {} THEN "Failed to parse CSV: No columns to parse from file"
    ELSE "Failed to parse CSV: Unknown CSV format - unable to detect bank"

NoTransactionsDetail == "No valid transactions found in file"

\* an upload path without the job id
upload_path_without_job_id(job_id, filename) == "uploads/" \o filename

\* UPLOAD_DIR / f"{job_id}_{file.filename}"
upload_path(job_id, filename) == "uploads/" \o job_id \o "_" \o filename

\* OUTPUT_DIR / f"{job_id}_CFO_Pack.xlsx"
output_path(job_id) == "outputs/" \o job_id \o "_CFO_Pack.xlsx"

\* str(e) of HTTPException(400, detail): "400: detail" where the class
\* defines __str__, "" where it does not
HTTPExceptionTexts == {"400: " \o NoTransactionsDetail, ""}

MaxRequests == 2

Requests == 1..MaxRequests

JobIds == {"job" \o NatToStr(n) : n \in 1..MaxRequests}

NamedFile(name, f) ==
    [name |-> name, ext |-> f.ext, columns |-> f.columns, rows |-> f.rows, images |-> f.images]

BadDatePage ==
    [reply |-> "list",
     records |-> <<PdfRecord("01/15/2024", "AWS", JsonFloat(-5000), "Debit")>>]

UploadFiles ==
    { NamedFile("jan", CsvFile(".csv", SampleLayout,
                     <<Cells("2024-01-15", "AWS", "-50.00", "ACH_DEBIT"),
                       Cells("01/02/2024", " Payroll deposit ", "1500", "Debit")>>)),
      NamedFile("pending", CsvFile(".CSV", SampleLayout,
                     <<Cells("2024-01-20", "Refund", "abc", "MISC_CREDIT")>>)),
      NamedFile("export", CsvFile(".csv", <<"Transaction", "Value">>, SampleCells)),
      NamedFile("notes", CsvFile(".txt", SampleLayout, SampleCells)),
      NamedFile("blank", PdfFile(".pdf", <<ErrorReply>>)),
      NamedFile("us", PdfFile(".pdf", <<BadDatePage>>)) }

NewJob(f) ==
    [pc |-> "received", file |-> f, job_id |-> None, upload_path |-> None,
     response |-> NoResponse]

InitUpload ==
    /\ pc = "serving"
    /\ jobs \in [Requests -> {NewJob(f) : f \in UploadFiles}]
    /\ uploads = <<>>
    /\ outputs = <<>>
    /\ IdleClean /\ IdleList /\ IdleDetect /\ IdlePdf /\ IdleParser

IssuedIds == {jobs[q].job_id : q \in Requests} \ {None}

\* upload_statement up to its await: the extension test, the job id, the
\* upload path and the open() that creates the file
UploadStart(r) ==
    /\ jobs[r].pc = "received"
    /\ LET filename == jobs[r].file.name \o jobs[r].file.ext
       IN  IF ~IsAllowed(filename)
           THEN /\ jobs' = [jobs EXCEPT ![r].pc = "done",
                                        ![r].response =
                                            Response(400, "Only PDF and CSV files are supported", 0)]
                /\ UNCHANGED <<uploads, outputs>>
           ELSE \E id \in JobIds \ IssuedIds :
                    LET path == upload_path(id, filename)
                    IN  /\ jobs' = [jobs EXCEPT ![r].pc = "reading",
                                                ![r].job_id = id,
                                                ![r].upload_path = path]
                        /\ uploads' = SetItem(uploads, path, <<>>)
                        /\ UNCHANGED outputs
    /\ UNCHANGED <<pc, cleanVars, listVars, detectVars, pdfVars, parserVars>>

\* upload_statement from the write of the content to its return or raise
UploadProcess(r) ==
    /\ jobs[r].pc = "reading"
    /\ LET path    == jobs[r].upload_path
           written == SetItem(uploads, path, jobs[r].file)
           saved   == written[path]
           parsed  == parse_bank_statement(Suffix(path), saved.columns, saved.rows,
                                           saved.images).result
           cleaned == cleanup_on_error(written, path)
       IN  IF parsed.raised
           THEN /\ jobs' = [jobs EXCEPT ![r].pc = "done",
                                        ![r].response =
                                            Response(500, "Processing error: "
                                                          \o parse_error_text(saved), 0)]
                /\ uploads' = cleaned
                /\ UNCHANGED outputs
           ELSE IF parsed.transactions = <<>>
           THEN /\ \E text \in HTTPExceptionTexts :
                       jobs' = [jobs EXCEPT ![r].pc = "done",
                                            ![r].response =
                                                Response(500, "Processing error: " \o text, 0)]
                /\ uploads' = cleaned
                /\ UNCHANGED outputs
           ELSE LET categorized == categorize_parsed(parsed.transactions)
                    bad         == BadDates(categorized)
                IN  IF bad # {}
                    THEN /\ jobs' = [jobs EXCEPT ![r].pc = "done",
                                                 ![r].response =
                                                     Response(500, "Processing error: time data '"
                                                         \o categorized[SetMin(bad)].date
                                                         \o "' does not match format '%Y-%m-%d'", 0)]
                         /\ uploads' = cleaned
                         /\ UNCHANGED outputs
                    ELSE /\ jobs' = [jobs EXCEPT ![r].pc = "done",
                                                 ![r].response =
                                                     Response(200, "completed", Len(categorized))]
                         /\ outputs' = SetItem(outputs, output_path(jobs[r].job_id),
                                               categorized)
                         /\ uploads' = DelItem(written, path)
    /\ UNCHANGED <<pc, cleanVars, listVars, detectVars, pdfVars, parserVars>>

NextUpload == \E r \in Requests : UploadStart(r) \/ UploadProcess(r)

SpecUpload == InitUpload /\ [][NextUpload]_vars

(***************************************************************************)
(* Python float: IEEE 754 binary64 with round-to-nearest-even.  A float    *)
(* is its sign, the exponent of its leading bit and its 53 significand     *)
(* bits, leading bit first; zero has no bits.                              *)
(***************************************************************************)
SignificandBits == 53

FloatZero == [neg |-> FALSE, exp |-> 0, bits |-> <<>>]

IsZero(x) == x.bits = <<>>

Zeros(k) == [i \in 1..k |-> 0]

\* numerals are handled in chunks of bits that fit a machine integer
ChunkLen == 20

\* the numeral of k bits of a natural number below 2^k, leading bit first
PadBits(n, k) == [i \in 1..k |-> (n \div 2 ^ (k - i)) % 2]

\* the number of a numeral of a chunk's length at most
RECURSIVE NatOfBits(_)
NatOfBits(bs) ==
    IF bs = <<>> THEN 0 ELSE 2 * NatOfBits(SubSeq(bs, 1, Len(bs) - 1)) + bs[Len(bs)]

StripLeadingZeros(bs) ==
    LET ones == {i \in 1..Len(bs) : bs[i] = 1}
    IN  IF ones = {} THEN <<>> ELSE SubSeq(bs, SetMin(ones), Len(bs))

\* the binary numeral of a natural number, leading bit first
BitsOfNat(n) == StripLeadingZeros(PadBits(n, ChunkLen + ChunkLen \div 2))

\* a + b + carry on numerals of one length; the result is one bit longer
RECURSIVE AddChunks(_, _, _)
AddChunks(a, b, carry) ==
    IF a = <<>> THEN <<carry>>
    ELSE LET k    == IF Len(a) < ChunkLen THEN Len(a) ELSE ChunkLen
             cut  == Len(a) - k
             s    == NatOfBits(SubSeq(a, cut + 1, Len(a)))
                     + NatOfBits(SubSeq(b, cut + 1, Len(b))) + carry
         IN  AddChunks(SubSeq(a, 1, cut), SubSeq(b, 1, cut), s \div 2 ^ k)
             \o PadBits(s % 2 ^ k, k)

AddBits(a, b) == AddChunks(a, b, 0)

\* a - b - borrow on numerals of one length, a not below b
RECURSIVE SubChunks(_, _, _)
SubChunks(a, b, borrow) ==
    IF a = <<>> THEN <<>>
    ELSE LET k    == IF Len(a) < ChunkLen THEN Len(a) ELSE ChunkLen
             cut  == Len(a) - k
             d    == NatOfBits(SubSeq(a, cut + 1, Len(a)))
                     - NatOfBits(SubSeq(b, cut + 1, Len(b))) - borrow
         IN  SubChunks(SubSeq(a, 1, cut), SubSeq(b, 1, cut), IF d < 0 THEN 1 ELSE 0)
             \o PadBits(IF d < 0 THEN d + 2 ^ k ELSE d, k)

SubBits(a, b) == SubChunks(a, b, 0)

\* a < b on numerals of one length
LessBits(a, b) ==
    LET differ == {i \in 1..Len(a) : a[i] # b[i]}
    IN  differ # {} /\ a[SetMin(differ)] < b[SetMin(differ)]

\* quotient and remainder of a numeral by a small number, r the remainder
\* carried in from the bits before
RECURSIVE DivChunks(_, _, _)
DivChunks(bs, d, r) ==
    IF bs = <<>> THEN [q |-> <<>>, r |-> r]
    ELSE LET k    == IF Len(bs) < ChunkLen THEN Len(bs) ELSE ChunkLen
             v    == r * 2 ^ k + NatOfBits(SubSeq(bs, 1, k))
             rest == DivChunks(SubSeq(bs, k + 1, Len(bs)), d, v % d)
         IN  [q |-> PadBits(v \div d, k) \o rest.q, r |-> rest.r]

DivBits(bs, d) == DivChunks(bs, d, 0)

\* rounding of a numeral with leading bit 1 at exponent e, followed by
\* something below its last bit when sticky, to 53 bits, ties to even
RoundToFloat(neg, e, bs, sticky) ==
    IF Len(bs) <= SignificandBits
    THEN [neg |-> neg, exp |-> e, bits |-> bs \o Zeros(SignificandBits - Len(bs))]
    ELSE LET kept  == SubSeq(bs, 1, SignificandBits)
             guard == bs[SignificandBits + 1]
             below == sticky \/ \E i \in (SignificandBits + 2)..Len(bs) : bs[i] = 1
             up    == guard = 1 /\ (below \/ kept[SignificandBits] = 1)
             inc   == AddBits(kept, Zeros(SignificandBits - 1) \o <<1>>)
         IN  IF ~up THEN [neg |-> neg, exp |-> e, bits |-> kept]
             ELSE IF Head(inc) = 1
             THEN [neg |-> neg, exp |-> e + 1, bits |-> SubSeq(inc, 1, SignificandBits)]
             ELSE [neg |-> neg, exp |-> e, bits |-> Tail(inc)]

CentsPerUnit == 100

GuardZeros == 64

\* float(text) for a decimal text with two decimals at most, given in
\* cents: the float nearest to cents / 100
FloatOfCents(cents) ==
    IF cents = 0 THEN FloatZero
    ELSE LET mag == IF cents < 0 THEN 0 - cents ELSE cents
             d   == DivBits(BitsOfNat(mag) \o Zeros(GuardZeros), CentsPerUnit)
             q   == StripLeadingZeros(d.q)
         IN  RoundToFloat(cents < 0, Len(q) - 1 - GuardZeros, q, d.r # 0)

\* x + y
fadd(x, y) ==
    IF IsZero(x) THEN y
    ELSE IF IsZero(y) THEN x
    ELSE LET top    == IF x.exp > y.exp THEN x.exp ELSE y.exp
             low    == (IF x.exp < y.exp THEN x.exp ELSE y.exp) - (SignificandBits - 1)
             a      == Zeros(top - x.exp) \o x.bits \o Zeros(x.exp - (SignificandBits - 1) - low)
             b      == Zeros(top - y.exp) \o y.bits \o Zeros(y.exp - (SignificandBits - 1) - low)
         IN  IF x.neg = y.neg
             THEN LET s == AddBits(a, b)
                      n == StripLeadingZeros(s)
                  IN  RoundToFloat(x.neg, top + 1 - (Len(s) - Len(n)), n, FALSE)
             ELSE IF a = b THEN FloatZero
             ELSE LET xbig == LessBits(b, a)
                      s    == IF xbig THEN SubBits(a, b) ELSE SubBits(b, a)
                      n    == StripLeadingZeros(s)
                  IN  RoundToFloat(IF xbig THEN x.neg ELSE y.neg,
                                   top - (Len(s) - Len(n)), n, FALSE)

\* abs(x)
fabs(x) == [x EXCEPT !.neg = FALSE]

\* x - y
fsub(x, y) == fadd(x, IF IsZero(y) THEN y ELSE [y EXCEPT !.neg = ~y.neg])

\* x > 0
fpositive(x) == ~IsZero(x) /\ ~x.neg

(***************************************************************************)
(* The two summaries on float amounts, as generate_cfo_pack gets them:     *)
(* each amount is the float of a decimal text and every += is a float      *)
(* addition                                                                *)
(***************************************************************************)
\* summary[category] += amount, or summary[category] = amount
RECURSIVE category_loop_float(_, _, _)
category_loop_float(txs, i, summary) ==
    IF i > Len(txs) THEN summary
    ELSE LET cat == GetCategory(txs[i])
             amt == txs[i].amount
         IN  category_loop_float(txs, i + 1,
                 IF cat \in DOMAIN summary
                 THEN [summary EXCEPT ![cat] = fadd(@, amt)]
                 ELSE SetItem(summary, cat, amt))

get_category_summary_float(txs) == category_loop_float(txs, 1, EmptyDict)

\* the first loop: revenue and expenses per month
RECURSIVE monthly_loop_float(_, _, _)
monthly_loop_float(txs, i, m) ==
    IF i > Len(txs) THEN m
    ELSE LET month == MonthOf(txs[i].date)
             m1 == IF month \in DOMAIN m THEN m
                   ELSE SetItem(m, month, [revenue |-> FloatZero, expenses |-> FloatZero,
                                           net_income |-> FloatZero])
             amt == txs[i].amount
         IN  monthly_loop_float(txs, i + 1,
                 IF fpositive(amt)
                 THEN [m1 EXCEPT ![month].revenue = fadd(@, amt)]
                 ELSE [m1 EXCEPT ![month].expenses = fadd(@, fabs(amt))])

get_monthly_summary_float(txs) ==
    LET m == monthly_loop_float(txs, 1, EmptyDict)
    IN  [month \in DOMAIN m |->
            [m[month] EXCEPT !.net_income = fsub(m[month].revenue, m[month].expenses)]]

\* the keys of a dict in the order of their insertion: each key at its
\* first place in the list
RECURSIVE FirstOccurrences(_)
FirstOccurrences(ks) ==
    IF ks = <<>> THEN <<>>
    ELSE LET front == FirstOccurrences(SubSeq(ks, 1, Len(ks) - 1))
             last  == ks[Len(ks)]
         IN  IF \E i \in 1..Len(front) : front[i] = last THEN front
             ELSE Append(front, last)

\* sum(values): the additions from 0, left to right
RECURSIVE fsum(_)
fsum(values) ==
    IF values = <<>> THEN FloatZero
    ELSE fadd(fsum(SubSeq(values, 1, Len(values) - 1)), values[Len(values)])

\* a categorized transaction of a statement whose amount text is cents / 100
FloatTxn(d, desc, cents) ==
    [date |-> d, description |-> desc, amount |-> FloatOfCents(cents),
     type |-> IF cents < 0 THEN "Debit" ELSE "Credit",
     category |-> categorize_transaction(desc, cents)]

FloatTxnPool ==
    { FloatTxn("2024-01-15", "Stripe payout", 10),
      FloatTxn("2024-01-16", "xyz", 10),
      FloatTxn("2024-01-17", "Stripe payout", 150000),
      FloatTxn("2024-01-15", "AWS", -550),
      FloatTxn("2024-02-01", "xyz", 435) }

MaxFloatTxns == 3

FloatTxnLists == SeqsUpTo(FloatTxnPool, MaxFloatTxns)

InitTotals ==
    /\ pc = "float_list"
    /\ transactions \in FloatTxnLists
    /\ category_summary = EmptyDict /\ monthly = EmptyDict
    /\ IdleClean /\ IdleDetect /\ IdlePdf /\ IdleParser /\ IdleUpload

GetMonthlySummaryFloat ==
    /\ pc = "float_list"
    /\ monthly' = get_monthly_summary_float(transactions)
    /\ pc' = "float_monthly_done"
    /\ UNCHANGED <<transactions, category_summary, cleanVars, detectVars, pdfVars, parserVars, uploadVars>>

GetCategorySummaryFloat ==
    /\ pc = "float_monthly_done"
    /\ category_summary' = get_category_summary_float(transactions)
    /\ pc' = "float_summarized"
    /\ UNCHANGED <<transactions, monthly, cleanVars, detectVars, pdfVars, parserVars, uploadVars>>

NextTotals ==
    \/ GetMonthlySummaryFloat
    \/ GetCategorySummaryFloat

SpecTotals == InitTotals /\ [][NextTotals]_vars

(***************************************************************************)
(* Properties of the categorizer                                           *)
(***************************************************************************)
\* indices of the categories with a keyword inside one of the two texts
MatchingIn(cleaned, raw_lower) ==
    {ci \in 1..Len(CATEGORY_RULES) :
        \E j \in 1..Len(CATEGORY_RULES[ci].keywords) :
            \/ Contains(cleaned, CATEGORY_RULES[ci].keywords[j])
            \/ Contains(raw_lower, CATEGORY_RULES[ci].keywords[j])}

\* ... inside the cleaned or the raw lower-cased description
MatchingCategories(d) == MatchingIn(clean_description(d), lower(d))

\* C1: categorize_transaction is first-match-wins in declaration order: the
\* category returned for a description with a matching keyword is the
\* earliest declared category having a keyword inside the cleaned or the raw
\* lower-cased description; "Amazon Web Services invoice" yields "Software".
C1_FirstMatchWins ==
    pc = "categorized" =>
        /\ LET matching == MatchingCategories(description)
           IN  matching # {} => category = CATEGORY_RULES[SetMin(matching)].category
        /\ description = "Amazon Web Services invoice" => category = "Software"

\* "Amazon Web Services invoice" matches Software, Revenue and Shopping
C1_Witness ==
    /\ pc = "categorized"
    /\ description = "Amazon Web Services invoice"
    /\ Cardinality(MatchingCategories(description)) >= 3
    /\ category = "Software"

\* C2: when no keyword of any category matches, the result is "Income" for
\* amount > 0, else "Small Expense" for abs(amount) < 5, else "Other Expense".
C2_Fallback ==
    (pc = "categorized" /\ MatchingCategories(description) = {}) =>
        /\ amount > 0 => category = "Income"
        /\ (amount <= 0 /\ amount > -500) => category = "Small Expense"
        /\ amount <= -500 => category = "Other Expense"

C2_Witness ==
    /\ pc = "categorized"
    /\ MatchingCategories(description) = {}
    /\ amount = -499
    /\ category = "Small Expense"

\* C3 as stated: for an unmatched description, amount 4.99 gives "Small
\* Expense", 5.00 gives "Other Expense", -5.00 gives "Other Expense" and
\* 100.00 gives "Income".
C3_FallbackBoundaryAsStated ==
    (pc = "categorized" /\ MatchingCategories(description) = {}) =>
        /\ amount = 499 => category = "Small Expense"
        /\ amount = 500 => category = "Other Expense"
        /\ amount = -500 => category = "Other Expense"
        /\ amount = 10000 => category = "Income"

\* C3 amended: for an unmatched description, the positive amounts 4.99 and
\* 5.00 give "Income" as 100.00 does, -5.00 gives "Other Expense" and -4.99
\* gives "Small Expense".
C3_FallbackBoundary ==
    (pc = "categorized" /\ MatchingCategories(description) = {}) =>
        /\ amount = 499 => category = "Income"
        /\ amount = 500 => category = "Income"
        /\ amount = -500 => category = "Other Expense"
        /\ amount = 10000 => category = "Income"
        /\ amount = -499 => category = "Small Expense"

C3_Witness ==
    /\ pc = "categorized"
    /\ MatchingCategories(description) = {}
    /\ amount = 499
    /\ category = "Income"

ListCategorized == pc \in {"list_categorized", "monthly_done", "summarized"}

\* C4: categorization is total: categorize_transaction returns a non-empty
\* category for every description and amount, and after
\* categorize_transactions every record of the list carries a non-empty
\* category.
C4_Total ==
    /\ pc = "categorized" => (category # "" /\ category # None)
    /\ ListCategorized =>
           \A i \in 1..Len(transactions) :
               /\ "category" \in DOMAIN transactions[i]
               /\ transactions[i].category # ""

C4_Witness ==
    /\ pc = "list_categorized"
    /\ Len(transactions) = 3
    /\ \E i \in 1..3 : transactions[i].category = "Small Expense"
    /\ \E i \in 1..3 : transactions[i].category = "Software"

\* C5: clean_description is idempotent: cleaning its own output changes
\* nothing, also when removing a digit code or an asterisk run joins the
\* surrounding text into a new phrase or a new 6-10 digit token.
C5_Idempotent == pc = "recleaned" => recleaned = cleaned_desc

RECURSIVE SumSeq(_)
SumSeq(ns) == IF ns = <<>> THEN 0 ELSE Head(ns) + SumSeq(Tail(ns))

\* the amounts of the records of the list that satisfy Keep
AmountsWhere(txs, Keep(_)) ==
    LET kept == SelectSeq(txs, Keep) IN [i \in 1..Len(kept) |-> kept[i].amount]

MonthKey(t) == SubSeq(t.date, 1, 7)

\* C6: get_monthly_summary has exactly one entry per distinct 7-character
\* date prefix; its revenue is the sum of the positive amounts of the month,
\* its expenses the sum of the absolute values of the negative amounts, both
\* non-negative, and its net_income is revenue minus expenses.
C6_MonthlySummary ==
    pc \in {"monthly_done", "summarized"} =>
        /\ DOMAIN monthly = {MonthKey(transactions[i]) : i \in 1..Len(transactions)}
        /\ \A m \in DOMAIN monthly :
               LET pos(t) == MonthKey(t) = m /\ t.amount > 0
                   neg(t) == MonthKey(t) = m /\ t.amount < 0
               IN  /\ monthly[m].revenue = SumSeq(AmountsWhere(transactions, pos))
                   /\ monthly[m].expenses = 0 - SumSeq(AmountsWhere(transactions, neg))
                   /\ monthly[m].revenue >= 0
                   /\ monthly[m].expenses >= 0
                   /\ monthly[m].net_income = monthly[m].revenue - monthly[m].expenses

\* +1500.00, -50.00 and -5.50 in 2024-01 give 1500.00, 55.50 and 1444.50
C6_Witness ==
    /\ pc = "monthly_done"
    /\ Len(transactions) = 3
    /\ \A i \in 1..3 : transactions[i].amount = TestTransactions[i].amount
    /\ \A i \in 1..3 : transactions[i].date = TestTransactions[i].date
    /\ monthly["2024-01"] = [revenue |-> 150000, expenses |-> 5550, net_income |-> 144450]

\* C7: get_category_summary of a categorized list maps each category of the
\* list to the signed sum of the amounts of its records, and its keys are
\* exactly the categories of the list.
C7_CategorySummary ==
    pc = "summarized" =>
        /\ DOMAIN category_summary =
               {transactions[i].category : i \in 1..Len(transactions)}
        /\ \A c \in DOMAIN category_summary :
               LET in_c(t) == t.category = c
               IN  category_summary[c] = SumSeq(AmountsWhere(transactions, in_c))

C7_Witness ==
    /\ pc = "summarized"
    /\ Len(transactions) = 3
    /\ transactions[1].category = "Software" /\ transactions[1].amount = -5000
    /\ transactions[3].category = "Software" /\ transactions[3].amount = -1000
    /\ transactions[2].category = "Revenue"
    /\ DOMAIN category_summary = {"Software", "Revenue"}
    /\ category_summary["Software"] = -6000

\* C8: categorize_transactions gives "Starbucks Coffee" with amount -5.50 the
\* category "Meals", and "Meals" is then a key of get_category_summary.
C8_StarbucksIsMeals ==
    LET coffee == {i \in 1..Len(transactions) :
                      /\ transactions[i].description = "Starbucks Coffee"
                      /\ transactions[i].amount = -550}
    IN  /\ ListCategorized => \A i \in coffee : transactions[i].category = "Meals"
        /\ (pc = "summarized" /\ coffee # {}) => "Meals" \in DOMAIN category_summary

(***************************************************************************)
(* Properties of detect_bank_format                                        *)
(***************************************************************************)
HasHeaders(names) == \A n \in names : \E c \in columns : lower(c) = n

\* C9: detect_bank_format applies its rules in priority order on the
\* lower-cased header names: posting date and description give chase, else
\* posted date and payee give bofa, else date and amount give wells_fargo,
\* else unknown; [Date, Amount] gives wells_fargo and [Posting Date,
\* Description, Amount] gives chase.
C9_DetectPriority ==
    pc = "detected" =>
        LET ruleA == HasHeaders({"posting date", "description"})
            ruleB == HasHeaders({"posted date", "payee"})
            ruleC == HasHeaders({"date", "amount"})
        IN  /\ ruleA => bank_format = "chase"
            /\ (~ruleA /\ ruleB) => bank_format = "bofa"
            /\ (~ruleA /\ ~ruleB /\ ruleC) => bank_format = "wells_fargo"
            /\ (~ruleA /\ ~ruleB /\ ~ruleC) => bank_format = "unknown"
            /\ columns = {"Date", "Amount"} => bank_format = "wells_fargo"
            /\ columns = {"Posting Date", "Description", "Amount"} => bank_format = "chase"

\* headers that satisfy both the first and the third rule
C9_Witness ==
    /\ pc = "detected"
    /\ columns = {"Posting Date", "Description", "Date", "Amount"}
    /\ bank_format = "chase"

(***************************************************************************)
(* Properties of parse_pdf_statement                                       *)
(***************************************************************************)
\* equal date and description strings and equal amounts
SameTriple(a, b) ==
    /\ a.date = b.date
    /\ a.description = b.description
    /\ NumberEq(a.amount, b.amount)

\* the records of a list that no earlier record of the list equals
RECURSIVE FirstOfEachTriple(_)
FirstOfEachTriple(txs) ==
    IF txs = <<>> THEN <<>>
    ELSE LET front == SubSeq(txs, 1, Len(txs) - 1)
             last  == txs[Len(txs)]
         IN  IF \E i \in 1..Len(front) : SameTriple(front[i], last)
             THEN FirstOfEachTriple(front)
             ELSE Append(FirstOfEachTriple(front), last)

\* C10: the list returned by parse_pdf_statement has no two records with
\* equal (date, description, amount) triples, and of the records with one
\* triple it keeps the first of the date-sorted collected records.
C10_NoDuplicateTriples ==
    pc = "returned" =>
        /\ \A i, j \in 1..Len(unique_transactions) :
               i < j => ~SameTriple(unique_transactions[i], unique_transactions[j])
        /\ unique_transactions = FirstOfEachTriple(all_transactions)

(***************************************************************************)
(* Properties of the CSV parsers and of parse_bank_statement               *)
(***************************************************************************)
\* the column a schema parser reads the date from
DateColumn(p) ==
    IF p = "chase" THEN "Posting Date" ELSE IF p = "bofa" THEN "Posted Date" ELSE "Date"

\* the columns a schema parser reads with row[...]
RequiredColumns(p) ==
    IF p = "chase" THEN {"Posting Date", "Description", "Amount"}
    ELSE IF p = "bofa" THEN {"Posted Date", "Payee", "Amount"}
    ELSE IF p = "wells_fargo" THEN {"Date", "Amount"}
    ELSE {"Date", "Description", "Amount"}

\* a row on which no conversion of schema parser p raises
WellFormed(p, row) ==
    /\ RequiredColumns(p) \subseteq DOMAIN row
    /\ ~DateRaises(row[DateColumn(p)])
    /\ ~FloatRaises(row["Amount"])

WellFormedRows(p) == {i \in 1..Len(rows) : WellFormed(p, rows[i])}

\* the k-th smallest number of a set
Kth(S, k) == CHOOSE i \in S : Cardinality({j \in S : j <= i}) = k

\* a schema parser has run and returned
SchemaParserReturned == pc \in {"parsed", "rows_parsed"} /\ parser_run # None

C12_NoNaNAmount ==
    SchemaParserReturned =>
        \A k \in 1..Len(result.transactions) : ~IsNaN(result.transactions[k].amount)

\* a YYYY-MM-DD text that names a day of the calendar
IsValidDate(d) == IsIsoDate(d) /\ IsCalendarDate(DateFields(d))

\* C13: every transaction parse_bank_statement returns has a valid
\* YYYY-MM-DD date, and the parse of a PDF does not fail because a record
\* of a page has no date: that record is left out and the rest is returned.
C13_ValidDates ==
    pc = "parsed" =>
        /\ \A k \in 1..Len(result.transactions) :
               /\ "date" \in DOMAIN result.transactions[k]
               /\ IsValidDate(result.transactions[k].date)
        /\ lower(file_ext) = ".pdf" => ~result.raised

\* no rule of detect_bank_format is satisfied by the headers
MatchesNoRule ==
    /\ ~HasHeaders({"posting date", "description"})
    /\ ~HasHeaders({"posted date", "payee"})
    /\ ~HasHeaders({"date", "amount"})
    /\ ~HasHeaders({"date", "description", "amount"})

\* C14: parse_bank_statement fails, and runs no schema parser, when the
\* extension in lower case is neither .pdf nor .csv and when the headers of
\* a CSV satisfy no detection rule; a CSV in any letter case of the
\* extension whose headers satisfy a rule is parsed by a schema parser.
C14_UnsupportedFails ==
    pc = "parsed" =>
        /\ lower(file_ext) \notin {".pdf", ".csv"} =>
               result.raised /\ parser_run = None
        /\ lower(file_ext) = ".csv" /\ MatchesNoRule =>
               result.raised /\ parser_run = None
        /\ lower(file_ext) = ".csv" /\ ~MatchesNoRule =>
               ~result.raised /\ parser_run # None

\* a CSV whose headers satisfy no rule
C14_Witness ==
    /\ pc = "parsed"
    /\ file_ext = ".csv" /\ columns = {"Transaction", "Value"} /\ Len(rows) > 0
    /\ result.raised /\ parser_run = None

(***************************************************************************)
(* Properties of the page loop and the sort of parse_pdf_statement         *)
(***************************************************************************)
\* the records of the first n pages whose extraction gave a list
RecordsOfPages(n) ==
    Flatten([p \in 1..n |-> IF images[p].reply = "list" THEN images[p].records ELSE <<>>])

\* C16: a page whose extraction fails contributes no record and does not
\* end the parse: the loop goes through every page collecting the records
\* of the non-failing pages, the result is the sort and deduplication of
\* exactly these records (empty when every page fails), and the parse
\* raises only in the sort, on a record of a non-failing page.
C16_FailedPagesSkipped ==
    /\ pc = "extracting" => all_transactions = RecordsOfPages(page_num - 1)
    /\ pc = "returned" =>
           unique_transactions =
               dedup_loop(sort_by_date(RecordsOfPages(Len(images))), 1, {}, <<>>)
    /\ pc = "raised" => ~HasDates(RecordsOfPages(Len(images)))

\* a failing page before a page with a record, and the record returned
C16_Witness ==
    /\ pc = "returned"
    /\ Len(images) = 2
    /\ images[1].reply # "list"
    /\ images[2].reply = "list" /\ images[2].records # <<>>
    /\ unique_transactions = images[2].records

\* C17: the list parse_pdf_statement returns is in ascending order of the
\* date strings.
C17_SortedByDate ==
    pc = "returned" =>
        \A i \in 1..(Len(unique_transactions) - 1) :
            ~StrLess(unique_transactions[i + 1].date, unique_transactions[i].date)

\* the later date on the first page, the earlier date first in the result
C17_Witness ==
    /\ pc = "returned"
    /\ Len(images) = 2
    /\ images[1].reply = "list" /\ images[2].reply = "list"
    /\ Len(images[1].records) = 1 /\ Len(images[2].records) = 1
    /\ StrLess(images[2].records[1].date, images[1].records[1].date)
    /\ unique_transactions = images[2].records \o images[1].records

\* C18: the list parse_bank_statement returns, from a CSV as from a PDF, has
\* non-decreasing dates whatever the order of the rows in the file.
C18_ChronologicalOrder ==
    pc = "parsed" /\ ~result.raised =>
        \A i \in 1..(Len(result.transactions) - 1) :
            ~StrLess(result.transactions[i + 1].date, result.transactions[i].date)

\* the amount text of a cell has a minus sign
SourceNegative(cell) == Char(strip(cell), 1) = "-"

\* C19: the sign of the amount decides the direction: the parsers of the
\* schemas with Posted Date/Payee, with Date/Amount and the generic one
\* label a transaction 'Debit' exactly when its amount is below zero and
\* 'Credit' otherwise, and the Chase parser returns the amount with the sign
\* of the Amount cell whatever the Type cell holds.
C19_SignDecidesType ==
    SchemaParserReturned =>
        LET good == WellFormedRows(parser_run)
        IN  \A k \in 1..Len(result.transactions) :
                LET tx   == result.transactions[k]
                    cell == rows[Kth(good, k)]["Amount"]
                IN  /\ parser_run # "chase" =>
                           tx.type = (IF ~IsNaN(tx.amount) /\ tx.amount.cents < 0
                                      THEN "Debit" ELSE "Credit")
                    /\ parser_run = "chase" /\ ~IsNaN(tx.amount) =>
                           /\ (tx.amount.cents < 0) = SourceNegative(cell)
                           /\ tx.amount = to_float(cell)

\* a debit and a credit of a Posted Date/Payee file, labelled by their sign
C19_Witness ==
    /\ pc = "parsed" /\ parser_run = "bofa"
    /\ Len(result.transactions) = 2
    /\ result.transactions[1].amount = JsonFloat(-5000)
    /\ result.transactions[1].type = "Debit"
    /\ result.transactions[2].amount = JsonFloat(150000)
    /\ result.transactions[2].type = "Credit"

\* C20: every transaction parse_bank_statement returns has the type 'Debit'
\* or 'Credit'.
C20_TypeIsDebitOrCredit ==
    pc = "parsed" /\ ~result.raised =>
        \A k \in 1..Len(result.transactions) :
            result.transactions[k].type \in {"Debit", "Credit"}

(***************************************************************************)
(* Properties of POST /upload                                              *)
(***************************************************************************)
\* what parse_bank_statement does with the file of a request
ParseOf(r) ==
    parse_bank_statement(jobs[r].file.ext, jobs[r].file.columns, jobs[r].file.rows,
                         jobs[r].file.images).result

\* the request passed the extension test and has finished
Finished(r) == jobs[r].pc = "done" /\ jobs[r].job_id # None

\* C15: a request whose file parses without an error into zero transactions
\* is answered with the client error "No valid transactions found in file",
\* not with a success and not with the server error that answers a parse
\* failure.
C15_NoTransactionsOutcome ==
    \A r \in Requests :
        Finished(r) /\ ~ParseOf(r).raised /\ ParseOf(r).transactions = <<>> =>
            /\ jobs[r].response.status = 400
            /\ jobs[r].response.detail = NoTransactionsDetail

\* the records of a workbook without the category the job added
Uncategorized(txs) == [i \in 1..Len(txs) |-> DelItem(txs[i], "category")]

\* the request has a job id
HasJob(r) == jobs[r].job_id # None

\* C21: two concurrent requests share no file and no list: their job ids,
\* upload paths and output paths differ, the file a job has opened stays in
\* the uploads directory untouched until that job writes and removes it,
\* every file in the two directories belongs to exactly one job, and the
\* workbook of a job holds the transactions parsed from that job's own file.
C21_JobsIsolated ==
    /\ \A r, q \in Requests :
           r # q /\ HasJob(r) /\ HasJob(q) =>
               /\ jobs[r].job_id # jobs[q].job_id
               /\ jobs[r].upload_path # jobs[q].upload_path
               /\ output_path(jobs[r].job_id) # output_path(jobs[q].job_id)
    /\ \A r \in Requests :
           /\ jobs[r].pc = "reading" =>
                  /\ jobs[r].upload_path \in DOMAIN uploads
                  /\ uploads[jobs[r].upload_path] = <<>>
           /\ Finished(r) /\ jobs[r].response.status = 200 =>
                  /\ output_path(jobs[r].job_id) \in DOMAIN outputs
                  /\ Uncategorized(outputs[output_path(jobs[r].job_id)])
                         = ParseOf(r).transactions
    /\ DOMAIN uploads = {jobs[r].upload_path : r \in {q \in Requests : jobs[q].pc = "reading"}}
    /\ DOMAIN outputs =
           {output_path(jobs[r].job_id) :
                r \in {q \in Requests : Finished(q) /\ jobs[q].response.status = 200}}

\* two requests with the same file name in flight, each with its own file
C21_Witness ==
    /\ jobs[1].pc = "reading" /\ jobs[2].pc = "reading"
    /\ jobs[1].file = jobs[2].file
    /\ Cardinality(DOMAIN uploads) = 2

\* C27: once a request that passed the extension test has finished, with
\* 'completed' or with an error from parsing, categorization or workbook
\* generation, the file it saved is no longer in the uploads directory.
C27_UploadRemoved ==
    \A r \in Requests : Finished(r) => jobs[r].upload_path \notin DOMAIN uploads

\* a request that failed in the workbook generation, its file removed
C27_Witness ==
    \E r \in Requests :
        /\ Finished(r)
        /\ jobs[r].response.status = 500
        /\ jobs[r].file.name = "us"
        /\ jobs[r].upload_path \notin DOMAIN uploads

(***************************************************************************)
(* More properties of detect_bank_format and of the CSV parsers            *)
(***************************************************************************)
\* C22: the fourth rule of detect_bank_format is never reached: for every
\* set of headers the result is not 'generic', and parse_csv_statement on a
\* file with these headers does not run parse_generic_format.
C22_GenericUnreachable ==
    pc = "detected" =>
        /\ bank_format # "generic"
        /\ parse_csv_statement(columns, <<>>).parser_run # "generic"

\* headers that satisfy the fourth rule are taken by the third
C22_Witness ==
    /\ pc = "detected"
    /\ columns = {"Date", "Description", "Amount"}
    /\ bank_format = "wells_fargo"

(***************************************************************************)
(* More properties of the merge of parse_pdf_statement                     *)
(***************************************************************************)
\* the pages in another order
Reordered(perm) == [p \in 1..Len(images) |-> images[perm[p]]]

\* C23: the result of the sort and deduplication does not depend on the
\* order in which the pages' records were collected: the same page results
\* in any other order give the same list, with the same order of the
\* records and the same copy of each duplicate.
C23_OrderIndependent ==
    pc = "returned" =>
        \A perm \in Permutations(1..Len(images)) :
            parse_pdf_statement(Reordered(perm)) = Returned(unique_transactions)

\* records with one deduplication key have equal triples
OnlyEqualTriplesMerged ==
    pc = "returned" =>
        \A i, j \in 1..Len(all_transactions) :
            DedupKey(all_transactions[i]) = DedupKey(all_transactions[j]) =>
                SameTriple(all_transactions[i], all_transactions[j])

\* C24: the deduplication merges two collected records only when their
\* date, description and amount are each equal, and every distinct triple
\* of the collected records is in the output exactly once.
C24_EachTripleOnce ==
    /\ OnlyEqualTriplesMerged
    /\ pc = "returned" =>
           \A i \in 1..Len(all_transactions) :
               Cardinality({k \in 1..Len(unique_transactions) :
                                SameTriple(unique_transactions[k], all_transactions[i])}) = 1

(***************************************************************************)
(* Properties of the two summaries on float amounts                        *)
(***************************************************************************)
AmountsOf(txs) == [i \in 1..Len(txs) |-> txs[i].amount]

CategoryValues(txs, summary) ==
    LET ks == FirstOccurrences([i \in 1..Len(txs) |-> GetCategory(txs[i])])
    IN  [i \in 1..Len(ks) |-> summary[ks[i]]]

NetIncomes(txs, m) ==
    LET ks == FirstOccurrences([i \in 1..Len(txs) |-> MonthOf(txs[i].date)])
    IN  [i \in 1..Len(ks) |-> m[ks[i]].net_income]

\* C25: once both summaries of a transaction list are computed, the sum of
\* the values of get_category_summary equals the sum of the amounts, which
\* equals the sum of net_income over the months of get_monthly_summary
C25_TotalsConserved ==
    pc = "float_summarized" =>
        /\ fsum(CategoryValues(transactions, category_summary)) = fsum(AmountsOf(transactions))
        /\ fsum(AmountsOf(transactions)) = fsum(NetIncomes(transactions, monthly))

(***************************************************************************)
(* Properties of detect_bank_format together with the schema parsers       *)
(***************************************************************************)
\* the headers of the file that are a name when lower-cased
HeadersNamed(name) == {c \in columns : lower(c) = name}

\* the rows with a parseable date and a numeric amount under the headers
\* that detect_bank_format matched for schema p, whatever their letter case
ParseableRows(p) ==
    LET dates   == HeadersNamed(lower(DateColumn(p)))
        amounts == HeadersNamed("amount")
    IN  {i \in 1..Len(rows) :
            \E dc \in dates, ac \in amounts :
                /\ ~DateRaises(rows[i][dc])
                /\ ~FloatRaises(rows[i][ac])
                /\ ~IsNaN(to_float(rows[i][ac]))}

\* C26: whenever detect_bank_format selects a schema for a CSV, every row of
\* the CSV with a parseable date and a numeric amount yields one transaction,
\* whatever the letter case of the header names
C26_DetectionAndParsingAgree ==
    (pc = "parsed" /\ parser_run # None) =>
        LET good == ParseableRows(parser_run)
        IN  /\ ~result.raised
            /\ Len(result.transactions) >= Cardinality(good)
            /\ \A i \in good :
                   \E k \in 1..Len(result.transactions), dc \in HeadersNamed(lower(DateColumn(parser_run))),
                      ac \in HeadersNamed("amount") :
                       /\ result.transactions[k].date = to_date(rows[i][dc])
                       /\ result.transactions[k].amount = to_float(rows[i][ac])

====
